---- MODULE Spec2Model ----
(***************************************************************************)
(* Window assembly, heartbeat-forced finalization and controller-side      *)
(* imputation of the edge patient-monitoring pipeline.                     *)
(*                                                                         *)
(* Modelled from the source:                                               *)
(*   - the controller (merged_sepsis_news/src/controller.py): the          *)
(*     heartbeat thread, handle_packet_in / parse_packet, impute_value,    *)
(*     log_imputation;                                                     *)
(*   - the sending side of the test harnesses (send_scenario,              *)
(*     send_partial_window, send_complete_window).                         *)
(* Modelled from the specification, because the data-plane program that    *)
(* holds the per-patient windows is not among the Python sources:          *)
(*   - the Window Store and Submission Gate (update_slot, is_complete,     *)
(*     snapshot_and_clear, the WINDOW_TIMEOUT check on every heartbeat).   *)
(*                                                                         *)
(* Time is counted in seconds.  The heartbeat thread's for-loop is taken   *)
(* to run in zero time; time passes only while the thread sleeps, so       *)
(* consecutive ticks are exactly HEARTBEAT_NS apart.                       *)
(***************************************************************************)
EXTENDS Integers, Sequences, FiniteSets, TLC

(***************************************************************************)
(* Bounds of the model.                                                    *)
(***************************************************************************)
\* Population the controller heartbeats (2000 in the source, scaled down).
NUM_PATIENTS == 2
\* Granularity of the clock, in seconds.
TimeUnit == 8
\* Number of scenarios a harness sends for one patient.
MaxWindows == 2
\* Raw draws, and the largest sensor_id, tried on impute_value alone.
MaxRaw == 50
MaxSensorId == 11
\* Number of failures injected into one run.
MaxFaults == 1
\* Number of vectors punted to the packet-in path when it is run on its own.
MaxVectors == 1
\* 24-hour simulation: capacity of the ICU (75 by default, any integer the
\* operator types), largest number of initial admissions (15..25 in the
\* source) and passes of the patient-management loop.
max_concurrent_patients == 2
MaxInitialPatients == 2
MaxMgmtLoops == 1
\* Concurrency test: number of calls of get_next_patient_id_batch.
MaxBatchCalls == 3
\* Timeout and latency testers: scenarios sent and alerts received in a run.
MaxScenarios == 2
MaxAlerts == 3
\* Sensor simulators: rows of Test_Data (windows) processed in a run.
MaxRows == 2

(***************************************************************************)
(* Program constants.                                                      *)
(***************************************************************************)
HEARTBEAT_NS == 15
HEARTBEAT_SENSOR_ID == 999
NumFeatures == 10
WINDOW_TIMEOUT == 60
max_patient_id == 50000
window_total == 90

Sensors == 0 .. (NumFeatures - 1)
\* Patient ids of the model: the heartbeated population and one id beyond it
\* (the harnesses use ids far above NUM_PATIENTS).
PatientIds == 0 .. NUM_PATIENTS
\* The harness that is run against the system.
Harnesses == {"timeout", "performance"}
\* A window's age is tracked up to this value (it only matters whether it
\* is below WINDOW_TIMEOUT, or below WINDOW_TIMEOUT + HEARTBEAT_NS).
AgeCap == WINDOW_TIMEOUT + HEARTBEAT_NS + TimeUnit
NoValue == -1

VARIABLES
    window,       \* switch: patient_id -> [slots, age, ts] (the Window Store)
    wseq,         \* switch: patient_id -> number of windows finalized so far
    hbPc,         \* heartbeat thread: "send" (in the for-loop) or "sleep"
    hbPid,        \* heartbeat thread: the loop variable pid
    sleepLeft,    \* heartbeat thread: seconds of time.sleep still to pass
    hbSent,       \* Sensor packets handed to PacketOut in the current tick
    pktIn,        \* PacketIn stream: packets waiting for handle_packet_in
    csvLog,       \* data rows of CSV_LOG, in the order written
    handled,      \* history: Planter packets parse_packet has processed
    submissions,  \* history: patient_id -> vectors handed to the inference channel
    harness,      \* which harness is run: "timeout" or "performance"
    hwin,         \* harness: patient_id -> number of scenarios started
    hscen,        \* harness: patient_id -> sensors still to send in the scenario
    impSensor,    \* a call impute_value(sensor_id): its argument
    impResult,    \* ... and what it returned (NoValue before the call)
    hbFailed,     \* patient ids whose heartbeat PacketOut raised in the current tick
    ctlPc,        \* main thread: "run" (in "while True") or "stopped"
    faults        \* number of failures injected so far

pipelineVars == <<window, wseq, hbPc, hbPid, sleepLeft, hbSent, pktIn, csvLog,
                  handled, submissions, harness, hwin, hscen, impSensor,
                  impResult, hbFailed, ctlPc, faults>>

(***************************************************************************)
(* State of the test programs and table utilities of the repository, each  *)
(* modelled on its own further below.                                      *)
(***************************************************************************)
VARIABLES
    icu,          \* twenty4_hour_test.py: the fields of TwentyFourHourTester
    icuThread,    \* ... thread -> its position and local variables
    concurrency,  \* concurrency_test.py: patient_id_counter of ConcurrencyTester,
                  \* the calls of get_next_patient_id_batch and what they returned
    sim,          \* sensors_simulator.py / sensors_simulator_batch.py: the
                  \* window loop, the clock, its sensor threads and what was sent
    monitor,      \* timeout_test.py / latency_test.py: the tester's sent map,
                  \* its recorded results and the events of the run
    tables        \* merge_table_entries.py, fix_table_entries.py and
                  \* quick_fix_priorities.py: the parsed input tables and the
                  \* files the three scripts have written

icuVars == <<icu, icuThread>>
toolVars == <<icuVars, concurrency, monitor, sim, tables>>
notIcuVars == <<pipelineVars, concurrency, monitor, sim, tables>>
notConcurrencyVars == <<pipelineVars, icuVars, monitor, sim, tables>>
notMonitorVars == <<pipelineVars, icuVars, concurrency, sim, tables>>
notSimVars == <<pipelineVars, icuVars, concurrency, monitor, tables>>
notTablesVars == <<pipelineVars, icuVars, concurrency, monitor, sim>>
vars == <<pipelineVars, toolVars>>

\* TwentyFourHourTester.__init__, max_concurrent_patients as main() sets it;
\* no thread has started.  admitted, overwritten and discharged are
\* histories kept for the properties.
IcuConstructed ==
    /\ icu = [active_patients |-> {}, patient_id_counter |-> 1000,
              total_admissions |-> 0, total_discharges |-> 0,
              test_active |-> TRUE, admitted |-> <<>>, overwritten |-> {}]
    /\ icuThread = [th \in {"main", "mgmt"} |->
                       [pc |-> "off", ret |-> "off", patient_id |-> NoValue,
                        loaded |-> NoValue, candidates |-> {}, todo |-> 0]]

\* ConcurrencyTester.__init__.
ConcurrencyConstructed ==
    concurrency = [patient_id_counter |-> 1000, batches |-> <<>>]

\* TimeoutTester.__init__ / LatencyTester.__init__: sent is sent_scenarios
\* or sent_times (its keys), data is timeout_data or latency_data (the
\* patient_id of each record), patient_id the next id run_*_test uses;
\* events is the history of sends, alerts and the end of monitoring.
MonitorConstructed(tester) ==
    monitor = [tester |-> tester, sent |-> {}, data |-> <<>>,
               monitoring_active |-> TRUE,
               patient_id |-> IF tester = "timeout" THEN 1500 ELSE 1000,
               events |-> <<>>]

\* A sensor simulator about to process 'rows' (the patient_id of each row
\* of the data it was given): no window started, no thread, clock at 0.
\* started and sent are histories kept for the properties.
SimLoaded(program, rows) ==
    sim = [program |-> program, rows |-> rows, idx |-> 0, pc |-> "window",
           now |-> 0, window_start |-> 0, late_window |-> FALSE, draw |-> 0,
           sensor_id |-> 0, wake |-> 0,
           threads |-> [w \in 1 .. Len(rows) |->
                          [s \in Sensors |-> [state |-> "unborn", wake |-> 0]]],
           started |-> <<>>, sent |-> {}]

\* The table utilities given the table entries 'entries' read from the two
\* command files, before any of them has written its output file.
TablesLoaded(entries) ==
    tables = [entries |-> entries, merged_features |-> <<>>, merged |-> <<>>,
              fixed |-> <<>>, corrected |-> <<>>, written |-> {}]

\* Every program other than 'running' is as constructed and does not run.
ToolsIdleExcept(running) ==
    /\ (running = "icu" \/ IcuConstructed)
    /\ (running = "concurrency" \/ ConcurrencyConstructed)
    /\ (running = "monitor" \/ MonitorConstructed("timeout"))
    /\ (running = "sim" \/ SimLoaded("sensors_simulator", <<>>))
    /\ (running = "tables" \/ TablesLoaded(<<>>))

ToolsIdle == ToolsIdleExcept("none")

(***************************************************************************)
(* Imputation Engine: controller.py impute_value.  random.randint(a, b)    *)
(* returns any integer of a..b; r is the raw draw of the entropy source.   *)
(***************************************************************************)
\* A variant that can return b + 1.
randint_past(a, b, r) == a + (r % (b - a + 2))

\* A variant that forgets the lower end of the range.
randint_from_zero(a, b, r) == r % (b - a + 1)

randint(a, b, r) == a + (r % (b - a + 1))

impute_value(sensor_id, r) ==
    CASE sensor_id = 0 -> randint(350, 400, r)
      [] sensor_id = 1 -> randint(90, 100, r)
      [] sensor_id = 2 -> randint(60, 100, r)
      [] sensor_id = 3 -> randint(100, 140, r)
      [] sensor_id = 4 -> randint(12, 20, r)
      [] sensor_id = 5 -> randint(0, 3, r)
      [] sensor_id = 6 -> randint(0, 1, r)
      [] sensor_id = 7 -> 1
      [] sensor_id = 8 -> randint(30, 80, r)
      [] sensor_id = 9 -> randint(0, 1, r)
      [] OTHER -> 1

\* A variant that writes the two values in the wrong columns.
log_imputation_swapped(log, patient_id, sensor_id, old_val, new_val) ==
    Append(log, [patient_id |-> patient_id, sensor_id |-> sensor_id,
                 old_value |-> new_val, new_value |-> old_val])

\* controller.py log_imputation: one row appended to CSV_LOG.
\* A variant that writes the row under the default patient id.
log_imputation_default_pid(log, patient_id, sensor_id, old_val, new_val) ==
    Append(log, [patient_id |-> 0, sensor_id |-> sensor_id,
                 old_value |-> old_val, new_value |-> new_val])

log_imputation(log, patient_id, sensor_id, old_val, new_val) ==
    Append(log, [patient_id |-> patient_id, sensor_id |-> sensor_id,
                 old_value |-> old_val, new_value |-> new_val])

(***************************************************************************)
(* Wire formats.                                                           *)
(***************************************************************************)
\* controller.py class Sensor, as built by heartbeat_loop and the harnesses.
Sensor(patient_id, sensor_id, timestamp, feature_value) ==
    [patient_id |-> patient_id, sensor_id |-> sensor_id,
     timestamp |-> timestamp, feature_value |-> feature_value]

\* controller.py class Planter.  about is not on the wire: it records, for
\* the properties only, which window of the patient the vector is
\* (about.win) and which of its slots were observed (about.observed).
Planter(patient_id, timestamp, feature, about) ==
    [type |-> "Planter", patient_id |-> patient_id, timestamp |-> timestamp,
     feature |-> feature, result |-> 0, about |-> about]

(***************************************************************************)
(* Window Store and Submission Gate of the switch (from the specification).*)
(***************************************************************************)
EmptyWindow == [slots |-> [s \in Sensors |-> NoValue], age |-> 0, ts |-> 0]

Observed(w) == {s \in Sensors : w.slots[s] # NoValue}
IsEmpty(w) == Observed(w) = {}

\* update_slot: the first observed value of a slot wins; the first reading
\* of a window fixes its timestamp and starts its age.
update_slot(w, sensor_id, value, timestamp) ==
    IF w.slots[sensor_id] # NoValue THEN w
    ELSE [slots |-> [w.slots EXCEPT ![sensor_id] = value],
          age |-> IF IsEmpty(w) THEN 0 ELSE w.age,
          ts |-> IF IsEmpty(w) THEN timestamp ELSE w.ts]

is_complete(w) == Observed(w) = Sensors

\* The vector of a window: an unobserved slot travels as 0.
FeatureVector(w) == [s \in Sensors |-> IF w.slots[s] = NoValue THEN 0 ELSE w.slots[s]]

\* A variant that forces every non-empty window, whatever its age.
TimedOut_early(w) == ~IsEmpty(w)

\* The heartbeat check: a non-empty window whose age reached the threshold.
TimedOut(w) == ~IsEmpty(w) /\ w.age >= WINDOW_TIMEOUT

\* A variant that takes the content and leaves the window as it is.
snapshot_keep(w) == w

\* snapshot_and_clear: the window's content is taken and the window reset.
snapshot_and_clear(w) == EmptyWindow

About(w, win) == [win |-> win, observed |-> Observed(w)]

Submission(patient_id, timestamp, feature, about, via) ==
    [patient_id |-> patient_id, timestamp |-> timestamp, feature |-> feature,
     about |-> about, via |-> via]

\* The switch pipeline processes one Sensor packet (a reading or a heartbeat).
SwitchIngest(pkt) ==
    LET p == pkt.patient_id
        w == window[p]
    IN  IF pkt.sensor_id = HEARTBEAT_SENSOR_ID
        THEN IF TimedOut(w)
             THEN \* snapshot_and_clear, vector punted to the controller
                  /\ pktIn' = Append(pktIn,
                         Planter(p, w.ts, FeatureVector(w), About(w, wseq[p])))
                  /\ window' = [window EXCEPT ![p] = snapshot_and_clear(w)]
                  /\ wseq' = [wseq EXCEPT ![p] = @ + 1]
                  /\ UNCHANGED submissions
             ELSE UNCHANGED <<pktIn, window, wseq, submissions>>
        ELSE IF pkt.sensor_id \in Sensors
        THEN LET w2 == update_slot(w, pkt.sensor_id, pkt.feature_value, pkt.timestamp)
             IN  IF is_complete(w2)
                 THEN \* immediate submission, then snapshot_and_clear
                      /\ submissions' = [submissions EXCEPT ![p] = Append(@,
                            Submission(p, w2.ts, FeatureVector(w2),
                                       About(w2, wseq[p]), "switch"))]
                      /\ window' = [window EXCEPT ![p] = snapshot_and_clear(w2)]
                      /\ wseq' = [wseq EXCEPT ![p] = @ + 1]
                      /\ UNCHANGED pktIn
                 ELSE /\ window' = [window EXCEPT ![p] = w2]
                      /\ UNCHANGED <<pktIn, wseq, submissions>>
        ELSE UNCHANGED <<pktIn, window, wseq, submissions>>

(***************************************************************************)
(* Heartbeat thread: controller.py heartbeat_loop.                         *)
(***************************************************************************)
\* A variant that runs one id too far: range(NUM_PATIENTS + 1).
HeartbeatPatients_more == 0 .. NUM_PATIENTS

\* range(NUM_PATIENTS)
HeartbeatPatients == 0 .. (NUM_PATIENTS - 1)

\* A variant whose sensor_id is the index of a real slot.
HeartbeatPacket_slot(pid) == Sensor(pid, 8, 0, 0)

\* A variant that leaves sensor_id at 0 instead of the sentinel.
HeartbeatPacket_first(pid) == Sensor(pid, 0, 0, 0)

\* Sensor(patient_id=pid, sensor_id=999, timestamp=0, feature_value=0)
HeartbeatPacket(pid) == Sensor(pid, HEARTBEAT_SENSOR_ID, 0, 0)

\* One iteration of the for-loop: build the packet and PacketOut it.
HeartbeatSend ==
    /\ hbPc = "send"
    /\ hbPid \in HeartbeatPatients
    /\ hbSent' = Append(hbSent, HeartbeatPacket(hbPid))
    /\ SwitchIngest(HeartbeatPacket(hbPid))
    /\ hbPid' = hbPid + 1
    /\ UNCHANGED <<hbPc, sleepLeft, csvLog, handled, harness, hwin, hscen, impSensor, impResult,
                   hbFailed, ctlPc, faults>>
    /\ UNCHANGED toolVars

\* The loop is exhausted: print, then time.sleep(HEARTBEAT_NS).
HeartbeatSleep ==
    /\ hbPc = "send"
    /\ hbPid \notin HeartbeatPatients
    /\ hbPc' = "sleep"
    /\ sleepLeft' = HEARTBEAT_NS
    /\ UNCHANGED <<window, wseq, hbPid, hbSent, pktIn, csvLog, handled,
                   submissions, harness, hwin, hscen, impSensor, impResult,
                   hbFailed, ctlPc, faults>>
    /\ UNCHANGED toolVars

\* time.sleep returns: the next pass of "while True" starts.
HeartbeatWake ==
    /\ hbPc = "sleep"
    /\ sleepLeft = 0
    /\ hbPc' = "send"
    /\ hbPid' = 0
    /\ hbSent' = <<>>
    /\ hbFailed' = {}
    /\ UNCHANGED <<window, wseq, sleepLeft, pktIn, csvLog, handled,
                   submissions, harness, hwin, hscen, impSensor, impResult,
                   ctlPc, faults>>
    /\ UNCHANGED toolVars

\* Time passes while the heartbeat thread sleeps; every window ages.  A
\* harness sends the readings of one scenario 0.01 s apart, which is less
\* than a unit of the clock: no time passes in the middle of a scenario.
Advance ==
    /\ hbPc = "sleep"
    /\ sleepLeft > 0
    /\ \A p \in PatientIds : hscen[p] = <<>>
    /\ LET dt == IF sleepLeft < TimeUnit THEN sleepLeft ELSE TimeUnit
       IN  /\ sleepLeft' = sleepLeft - dt
           /\ window' = [p \in PatientIds |->
                  IF IsEmpty(window[p]) THEN window[p]
                  ELSE [window[p] EXCEPT !.age =
                          IF @ + dt > AgeCap THEN AgeCap ELSE @ + dt]]
    /\ UNCHANGED <<wseq, hbPc, hbPid, hbSent, pktIn, csvLog, handled,
                   submissions, harness, hwin, hscen, impSensor, impResult,
                   hbFailed, ctlPc, faults>>
    /\ UNCHANGED toolVars

(***************************************************************************)
(* Packet-in path: controller.py handle_packet_in and parse_packet.        *)
(***************************************************************************)
\* A variant that skips no sensor.
SkippedSensors_none == {}

\* A variant whose skip list starts one id late.
SkippedSensors_fewer == {6, 7, 8, 9}

\* "if sensor_id in [5, 6, 7, 8, 9]: continue"
SkippedSensors == {5, 6, 7, 8, 9}

\* "if cur_val == 0"
IsMissing(cur_val) == cur_val = 0

\* The slots the for-loop of parse_packet imputes.
ToImpute(planter) ==
    {s \in Sensors \ SkippedSensors : IsMissing(planter.feature[s])}

\* A variant in which the value of a slot also depends on the patient.
Imputed_by_patient(planter, draw) ==
    [planter EXCEPT !.feature =
        [s \in Sensors |-> IF s \in ToImpute(planter)
                           THEN impute_value(s, draw[s] + planter.patient_id)
                           ELSE planter.feature[s]]]

\* The packet after the loop, draw[s] being the raw draw used for slot s.
Imputed(planter, draw) ==
    [planter EXCEPT !.feature =
        [s \in Sensors |-> IF s \in ToImpute(planter)
                           THEN impute_value(s, draw[s])
                           ELSE planter.feature[s]]]

\* The rows the loop writes, in increasing sensor_id order.
RECURSIVE LogRows(_, _, _, _)
LogRows(log, before, after, sensor_id) ==
    IF sensor_id >= NumFeatures THEN log
    ELSE IF sensor_id \in ToImpute(before)
    THEN LogRows(log_imputation(log, before.patient_id, sensor_id,
                                before.feature[sensor_id], after.feature[sensor_id]),
                 before, after, sensor_id + 1)
    ELSE LogRows(log, before, after, sensor_id + 1)

\* A variant that sends the PacketOut a second time.
parse_packet_resend(pkt, draw) ==
    LET out == Imputed(pkt, draw)
        sub == Submission(out.patient_id, out.timestamp, out.feature, out.about,
                          "controller")
    IN  /\ csvLog' = LogRows(csvLog, pkt, out, 0)
        /\ handled' = Append(handled, [received |-> pkt, sent |-> out,
                                       logFrom |-> Len(csvLog),
                                       logTo |-> Len(LogRows(csvLog, pkt, out, 0)),
                                       outcome |-> "sent"])
        /\ submissions' = [submissions EXCEPT ![out.patient_id] = @ \o <<sub, sub>>]

\* parse_packet on a payload that decodes as Ether/Planter.
parse_packet(pkt, draw) ==
    LET out == Imputed(pkt, draw)
    IN  /\ csvLog' = LogRows(csvLog, pkt, out, 0)
        /\ handled' = Append(handled, [received |-> pkt, sent |-> out,
                                       logFrom |-> Len(csvLog),
                                       logTo |-> Len(LogRows(csvLog, pkt, out, 0)),
                                       outcome |-> "sent"])
        /\ submissions' = [submissions EXCEPT ![out.patient_id] = Append(@,
              Submission(out.patient_id, out.timestamp, out.feature, out.about,
                         "controller"))]

\* The outcomes of random.randint considered while one vector is processed:
\* the raw draws differ from slot to slot, and every slot gets either draw.
\* (Every draw of every range is tried on impute_value alone, below.)
RawDraws == {0, 1}
Draws(pkt) ==
    {[s \in ToImpute(pkt) |-> (r + s) % Cardinality(RawDraws)] : r \in RawDraws}

\* A variant that writes an audit row for a payload it drops.
HandlePacketIn_logdrop ==
    /\ ctlPc = "run"
    /\ pktIn # <<>>
    /\ LET pkt == Head(pktIn)
       IN  IF pkt.type = "Planter"
           THEN \E draw \in Draws(pkt) : parse_packet(pkt, draw)
           ELSE /\ csvLog' = log_imputation(csvLog, 0, 0, 0, 0)
                /\ UNCHANGED <<handled, submissions>>
    /\ pktIn' = Tail(pktIn)
    /\ UNCHANGED <<window, wseq, hbPc, hbPid, sleepLeft, hbSent, harness, hwin, hscen, impSensor, impResult,
                   hbFailed, ctlPc, faults>>
    /\ UNCHANGED toolVars

\* handle_packet_in: take the next PacketIn and parse it.
HandlePacketIn ==
    /\ ctlPc = "run"
    /\ pktIn # <<>>
    /\ LET pkt == Head(pktIn)
       IN  IF pkt.type = "Planter"
           THEN \E draw \in Draws(pkt) : parse_packet(pkt, draw)
           ELSE UNCHANGED <<csvLog, handled, submissions>>
    /\ pktIn' = Tail(pktIn)
    /\ UNCHANGED <<window, wseq, hbPc, hbPid, sleepLeft, hbSent, harness, hwin, hscen, impSensor, impResult,
                   hbFailed, ctlPc, faults>>
    /\ UNCHANGED toolVars

(***************************************************************************)
(* Test harnesses: the sending side of timeout_test.py (send_scenario) and *)
(* of performance_test.py (send_patient_window).                           *)
(***************************************************************************)
\* One row of sample_data: [361, 95, 70, 126, 15, 0, 1, 3, 78, 0]
sensor_values == <<361, 95, 70, 126, 15, 0, 1, 3, 78, 0>>

\* 'sensors' of the scenarios of run_timeout_test that the model sends.
Scenarios ==
    { <<0, 1, 2, 3, 4, 5, 6, 7, 8, 9>>,   \* Complete
      <<0, 1, 2, 3, 4, 5>>,               \* six of ten
      <<0, 2, 5, 7, 9>> }                 \* Random_Pattern

\* sensors_simulator.py sends a window with every sensor on time, or a late
\* window in which the vital signs 0-4 are not sent.
SimulatorScenarios ==
    { <<0, 1, 2, 3, 4, 5, 6, 7, 8, 9>>,
      <<5, 6, 7, 8, 9>> }

\* The timeout harness sends to ids of the heartbeated population (here its
\* last id); the performance harness sends to ids from 20000 on, beyond the
\* population.  In the model it also sends to the last heartbeated id, so
\* that two patients are served side by side.
SendingPatients(h) ==
    IF h = "performance" THEN {NUM_PATIENTS - 1, NUM_PATIENTS} ELSE {NUM_PATIENTS - 1}

\* Windows sent per patient: the performance harness sends one per id.
\* Of Test_Data the simulator is given two rows for the patient.
SimulatorWindows == 2
WindowsOf(h) ==
    IF h = "performance" THEN 1
    ELSE IF h = "simulator" THEN SimulatorWindows
    ELSE MaxWindows

\* send_patient_window sends the first 6 or all 10 sensors.
ScenariosOf(h) ==
    IF h = "timeout" THEN Scenarios
    ELSE IF h = "simulator" THEN SimulatorScenarios
    ELSE {sc \in Scenarios : \A i \in 1 .. Len(sc) : sc[i] = i - 1}

\* The readings a sensor can report: the value of the sample row and, for
\* the respiratory rate under the timeout harness, also the reading 0 (the
\* field is a ShortField whose default is 0, and twenty4_hour_test.py sends
\* max(0, baseline + variation)).
ZeroSensor == 4
Values(h, sensor_id) ==
    IF sensor_id = ZeroSensor /\ h = "timeout"
    THEN {0, sensor_values[sensor_id + 1]}
    ELSE {sensor_values[sensor_id + 1]}

\* base_timestamp of the k-th scenario, and timestamp of one of its readings.
ReadingTimestamp(k, sensor_id) == k * 1000 + sensor_id * 100

\* send_scenario is called: the harness starts sending a scenario.
HarnessStart(p) ==
    /\ p \in SendingPatients(harness)
    /\ hscen[p] = <<>>
    /\ hwin[p] < WindowsOf(harness)
    /\ \E sc \in ScenariosOf(harness) : hscen' = [hscen EXCEPT ![p] = sc]
    /\ hwin' = [hwin EXCEPT ![p] = @ + 1]
    /\ UNCHANGED <<window, wseq, hbPc, hbPid, sleepLeft, hbSent, pktIn,
                   csvLog, handled, submissions, harness, impSensor, impResult,
                   hbFailed, ctlPc, faults>>
    /\ UNCHANGED toolVars

\* One pass of the sending loop: sendp of the next sensor's reading.
HarnessSend(p) ==
    /\ hscen[p] # <<>>
    /\ LET s == Head(hscen[p])
       IN  \E v \in Values(harness, s) :
               SwitchIngest(Sensor(p, s, ReadingTimestamp(hwin[p], s), v))
    /\ hscen' = [hscen EXCEPT ![p] = Tail(@)]
    /\ UNCHANGED <<hbPc, hbPid, sleepLeft, hbSent, csvLog, handled, harness, hwin,
                   impSensor, impResult,
                   hbFailed, ctlPc, faults>>
    /\ UNCHANGED toolVars

(***************************************************************************)
(* The system.                                                             *)
(***************************************************************************)
Started ==
    /\ window = [p \in PatientIds |-> EmptyWindow]
    /\ wseq = [p \in PatientIds |-> 0]
    /\ hbPc = "send"
    /\ hbPid = 0
    /\ sleepLeft = 0
    /\ hbSent = <<>>
    /\ pktIn = <<>>
    /\ csvLog = <<>>
    /\ handled = <<>>
    /\ submissions = [p \in PatientIds |-> <<>>]
    /\ hwin = [p \in PatientIds |-> 0]
    /\ hscen = [p \in PatientIds |-> <<>>]
    /\ hbFailed = {}
    /\ ctlPc = "run"
    /\ faults = 0

Init ==
    /\ Started
    /\ harness \in Harnesses
    /\ impSensor = NoValue
    /\ impResult = NoValue
    /\ ToolsIdle

Next ==
    \/ HeartbeatSend
    \/ HeartbeatSleep
    \/ HeartbeatWake
    \/ Advance
    \/ HandlePacketIn
    \/ \E p \in PatientIds : HarnessStart(p)
    \/ \E p \in PatientIds : HarnessSend(p)

Spec == Init /\ [][Next]_vars

(***************************************************************************)
(* The performance harness under fair scheduling: both controller threads  *)
(* keep running, time keeps passing, and a harness that started sending a  *)
(* scenario finishes sending it.                                           *)
(***************************************************************************)
PerformanceInit ==
    /\ Started
    /\ harness = "performance"
    /\ impSensor = NoValue
    /\ impResult = NoValue
    /\ ToolsIdle

Fairness ==
    /\ WF_vars(HeartbeatSend)
    /\ WF_vars(HeartbeatSleep)
    /\ WF_vars(HeartbeatWake)
    /\ WF_vars(Advance)
    /\ WF_vars(HandlePacketIn)
    /\ \A p \in PatientIds : WF_vars(HarnessSend(p))

LiveSpec == PerformanceInit /\ [][Next]_vars /\ Fairness

(***************************************************************************)
(* impute_value on its own: one call for every sensor_id of a range that   *)
(* covers the table and ids outside it, with every raw draw 0..MaxRaw.     *)
(***************************************************************************)
SensorIdInputs == (0 .. MaxSensorId) \cup {HEARTBEAT_SENSOR_ID}

ImputeInit ==
    /\ Started
    /\ harness = "timeout"
    /\ impSensor \in SensorIdInputs
    /\ impResult = NoValue
    /\ ToolsIdle

ImputeCall ==
    /\ impResult = NoValue
    /\ \E r \in 0 .. MaxRaw : impResult' = impute_value(impSensor, r)
    /\ UNCHANGED <<window, wseq, hbPc, hbPid, sleepLeft, hbSent, pktIn, csvLog,
                   handled, submissions, harness, hwin, hscen, impSensor,
                   hbFailed, ctlPc, faults>>
    /\ UNCHANGED toolVars

ImputeSpec == ImputeInit /\ [][ImputeCall]_vars

(***************************************************************************)
(* Failures: a PacketOut or PacketIn call that raises, a write to CSV_LOG  *)
(* that raises, a payload that does not decode as Ether/Planter.  At most  *)
(* MaxFaults failures are injected into a run of sensors_simulator.py.     *)
(***************************************************************************)
\* A variant in which the exception leaves the for-loop and ends the thread.
on_heartbeat_error_raise == "dead"

\* "except Exception as e: print(...)" inside the for-loop: the loop goes on.
on_heartbeat_error == "send"

\* switch_conn.PacketOut raises for the heartbeat of patient hbPid.
HeartbeatSendFail ==
    /\ faults < MaxFaults
    /\ hbPc = "send"
    /\ hbPid \in HeartbeatPatients
    /\ hbFailed' = hbFailed \cup {hbPid}
    /\ hbPc' = on_heartbeat_error
    /\ hbPid' = hbPid + 1
    /\ faults' = faults + 1
    /\ UNCHANGED <<window, wseq, sleepLeft, hbSent, pktIn, csvLog, handled,
                   submissions, harness, hwin, hscen, impSensor, impResult, ctlPc>>
    /\ UNCHANGED toolVars

\* A variant that puts the vector back into the stream, to be tried again.
on_packet_error_retry(queue, pkt) == Append(queue, pkt)

\* "except Exception as e: print(...)" of parse_packet: the vector is given
\* up, and the stream goes on with the packets behind it.
on_packet_error(queue, pkt) == queue

\* A variant in which the exception leaves handle_packet_in and main.
after_handler_error_raise == "stopped"

\* handle_packet_in returns normally after an exception that parse_packet
\* (Exception) or handle_packet_in itself (grpc.RpcError) caught: main's
\* "while True" calls it again.
after_handler_error == "run"

\* The packet with the slots below 'stop' imputed (those whose row was
\* written before the failing write).
ImputedUntil(planter, draw, stop) ==
    [planter EXCEPT !.feature =
        [s \in Sensors |-> IF s \in ToImpute(planter) /\ s < stop
                           THEN impute_value(s, draw[s])
                           ELSE planter.feature[s]]]

\* The rows written for the slots below 'stop'.
RECURSIVE LogRowsUntil(_, _, _, _, _)
LogRowsUntil(log, before, after, sensor_id, stop) ==
    IF sensor_id >= stop THEN log
    ELSE IF sensor_id \in ToImpute(before)
    THEN LogRowsUntil(log_imputation(log, before.patient_id, sensor_id,
                                     before.feature[sensor_id], after.feature[sensor_id]),
                      before, after, sensor_id + 1, stop)
    ELSE LogRowsUntil(log, before, after, sensor_id + 1, stop)

\* A variant in which the handler takes back the rows of a failed vector.
log_after_error_rollback(before, after) == before

\* The audit log after "except Exception": the handler only prints, the rows
\* appended by log_imputation stay in the file.
log_after_error(before, after) == after

\* parse_packet in which log_imputation raises for slot 'stop': the rows of
\* the slots before it are in the log, no PacketOut is made.
LogWriteFail ==
    /\ faults < MaxFaults
    /\ ctlPc = "run"
    /\ pktIn # <<>>
    /\ Head(pktIn).type = "Planter"
    /\ LET pkt == Head(pktIn)
       IN  \E draw \in Draws(pkt) : \E stop \in ToImpute(pkt) :
             LET out == ImputedUntil(pkt, draw, stop)
                 log == LogRowsUntil(csvLog, pkt, out, 0, stop)
             IN  /\ csvLog' = log_after_error(csvLog, log)
                 /\ handled' = Append(handled, [received |-> pkt, sent |-> out,
                                                logFrom |-> Len(csvLog),
                                                logTo |-> Len(log),
                                                outcome |-> "log_failed"])
                 /\ pktIn' = on_packet_error(Tail(pktIn), pkt)
    /\ ctlPc' = after_handler_error
    /\ faults' = faults + 1
    /\ UNCHANGED <<window, wseq, hbPc, hbPid, sleepLeft, hbSent, submissions,
                   harness, hwin, hscen, impSensor, impResult, hbFailed>>
    /\ UNCHANGED toolVars

\* parse_packet in which the final switch_conn.PacketOut raises: the rows
\* are in the log, the vector is not delivered.
SendFail ==
    /\ faults < MaxFaults
    /\ ctlPc = "run"
    /\ pktIn # <<>>
    /\ Head(pktIn).type = "Planter"
    /\ LET pkt == Head(pktIn)
       IN  \E draw \in Draws(pkt) :
             LET out == Imputed(pkt, draw)
                 log == LogRows(csvLog, pkt, out, 0)
             IN  /\ csvLog' = log_after_error(csvLog, log)
                 /\ handled' = Append(handled, [received |-> pkt, sent |-> out,
                                                logFrom |-> Len(csvLog),
                                                logTo |-> Len(log),
                                                outcome |-> "send_failed"])
                 /\ pktIn' = on_packet_error(Tail(pktIn), pkt)
    /\ ctlPc' = after_handler_error
    /\ faults' = faults + 1
    /\ UNCHANGED <<window, wseq, hbPc, hbPid, sleepLeft, hbSent, submissions,
                   harness, hwin, hscen, impSensor, impResult, hbFailed>>
    /\ UNCHANGED toolVars

\* switch_conn.PacketIn() raises grpc.RpcError: handle_packet_in prints it
\* and returns; nothing is taken from the stream.
ReceiveError ==
    /\ faults < MaxFaults
    /\ ctlPc = "run"
    /\ ctlPc' = after_handler_error
    /\ faults' = faults + 1
    /\ UNCHANGED <<window, wseq, hbPc, hbPid, sleepLeft, hbSent, pktIn, csvLog,
                   handled, submissions, harness, hwin, hscen, impSensor,
                   impResult, hbFailed>>
    /\ UNCHANGED toolVars

\* Payloads that do not decode as Ether/Planter: another EtherType (no
\* Planter layer), or bytes on which the decoding raises.
Malformed == {[type |-> "Sensor"], [type |-> "garbage"]}

\* Such a payload arrives on the PacketIn stream.
MalformedArrives ==
    /\ faults < MaxFaults
    /\ \E m \in Malformed : pktIn' = Append(pktIn, m)
    /\ faults' = faults + 1
    /\ UNCHANGED <<window, wseq, hbPc, hbPid, sleepLeft, hbSent, csvLog,
                   handled, submissions, harness, hwin, hscen, impSensor,
                   impResult, hbFailed, ctlPc>>
    /\ UNCHANGED toolVars

FaultInit ==
    /\ Started
    /\ harness = "simulator"
    /\ impSensor = NoValue
    /\ impResult = NoValue
    /\ ToolsIdle

FaultNext ==
    \/ Next
    \/ HeartbeatSendFail
    \/ LogWriteFail
    \/ SendFail
    \/ ReceiveError
    \/ MalformedArrives

FaultSpec == FaultInit /\ [][FaultNext]_vars

(***************************************************************************)
(* The packet-in path on its own: parse_packet applied to vectors with     *)
(* every pattern of zero and nonzero vital signs, and to vectors it has    *)
(* sent out itself.                                                        *)
(***************************************************************************)
\* A second row of sample_data: [380, 94, 110, 90, 22, 1, 1, 2, 65, 1]
sepsis_values == <<380, 94, 110, 90, 22, 1, 1, 2, 65, 1>>

\* The vectors received: patient 0 with a row of normal data or patient 1
\* with a row of sepsis data, each vital sign 0-4 either present or 0.
ReceivedVectors ==
    {Planter(v.patient_id, v.timestamp,
             [s \in Sensors |-> IF s \in zero THEN 0 ELSE v.row[s + 1]],
             About([slots |-> [s \in Sensors |-> IF s \in zero THEN NoValue
                                                 ELSE v.row[s + 1]]], v.patient_id)) :
        v \in {[patient_id |-> 0, timestamp |-> 0, row |-> sensor_values],
               [patient_id |-> 1, timestamp |-> 1000, row |-> sepsis_values]},
        zero \in SUBSET (0 .. 4)}

ControllerInit ==
    /\ Started
    /\ harness = "performance"
    /\ impSensor = NoValue
    /\ impResult = NoValue
    /\ ToolsIdle

\* The switch punts a vector to the controller.
Receive ==
    /\ Len(handled) + Len(pktIn) < MaxVectors
    /\ \E v \in ReceivedVectors : pktIn' = Append(pktIn, v)
    /\ UNCHANGED <<window, wseq, hbPc, hbPid, sleepLeft, hbSent, csvLog, handled,
                   submissions, harness, hwin, hscen, impSensor, impResult,
                   hbFailed, ctlPc, faults>>
    /\ UNCHANGED toolVars

\* The vector of the last PacketOut is handed to the controller again.
Reinject ==
    /\ handled # <<>>
    /\ Len(handled) + Len(pktIn) < MaxVectors + 1
    /\ pktIn' = Append(pktIn, handled[Len(handled)].sent)
    /\ UNCHANGED <<window, wseq, hbPc, hbPid, sleepLeft, hbSent, csvLog, handled,
                   submissions, harness, hwin, hscen, impSensor, impResult,
                   hbFailed, ctlPc, faults>>
    /\ UNCHANGED toolVars

ControllerNext ==
    \/ Receive
    \/ Reinject
    \/ HandlePacketIn

ControllerSpec == ControllerInit /\ [][ControllerNext]_vars

(***************************************************************************)
(* twenty4_hour_test.py: TwentyFourHourTester.  The main thread             *)
(* (run_twenty_four_hour_test) and the patient-management thread           *)
(* (patient_management_loop) both call admit_patient and discharge_patient *)
(* on the same object, without a lock; every read and write of a shared    *)
(* field is a step of its own.                                             *)
(***************************************************************************)
IcuThreads == {"main", "mgmt"}

\* Thread th moves to position pc.
Goto(th, pc) == [icuThread EXCEPT ![th].pc = pc]

\* Thread th calls a method whose first position is pc, to return to ret.
Call(th, pc, ret) == [icuThread EXCEPT ![th].pc = pc, ![th].ret = ret]

\* Thread th returns from the method it is in; its locals are gone.
Return(th) == [icuThread EXCEPT ![th].pc = icuThread[th].ret,
                                ![th].patient_id = NoValue,
                                ![th].loaded = NoValue,
                                ![th].candidates = {}]

\* An exception leaves the method: patient_management_loop catches it
\* ("except Exception"), run_twenty_four_hour_test does not.
Raise(th) == [icuThread EXCEPT ![th].pc = IF th = "mgmt" THEN "caught" ELSE "crashed",
                               ![th].patient_id = NoValue,
                               ![th].loaded = NoValue,
                               ![th].candidates = {}]

\* run_twenty_four_hour_test starts the threads and draws initial_patients.
StartThreads ==
    /\ icuThread["main"].pc = "off"
    /\ \E n \in 1 .. MaxInitialPatients :
          icuThread' = [icuThread EXCEPT !["main"].pc = "initial",
                                         !["main"].todo = n,
                                         !["mgmt"].pc = "loop",
                                         !["mgmt"].todo = MaxMgmtLoops]
    /\ UNCHANGED <<icu, notIcuVars>>

\* for _ in range(initial_patients): self.admit_patient()
InitialLoop ==
    /\ icuThread["main"].pc = "initial"
    /\ icuThread' =
          IF icuThread["main"].todo > 0
          THEN [icuThread EXCEPT !["main"].pc = "admit_check",
                                 !["main"].ret = "initial",
                                 !["main"].todo = @ - 1]
          ELSE Goto("main", "run")
    /\ UNCHANGED <<icu, notIcuVars>>

\* The main loop ends (end_time reached or Ctrl-C): test_active = False.
EndTest ==
    /\ icuThread["main"].pc = "run"
    /\ icu' = [icu EXCEPT !.test_active = FALSE]
    /\ icuThread' = Goto("main", "cleanup")
    /\ UNCHANGED notIcuVars

\* while self.active_patients: self.discharge_patient()
CleanupLoop ==
    /\ icuThread["main"].pc = "cleanup"
    /\ icuThread' = IF icu.active_patients # {}
                    THEN Call("main", "dis_check", "cleanup")
                    ELSE Goto("main", "done")
    /\ UNCHANGED <<icu, notIcuVars>>

\* patient_management_loop: "while self.test_active", then the admission
\* draw (random.random() < rate): admit_patient is called or not.
MgmtLoop ==
    /\ icuThread["mgmt"].pc = "loop"
    /\ IF ~icu.test_active
       THEN icuThread' = Goto("mgmt", "exit")
       ELSE /\ icuThread["mgmt"].todo > 0
            /\ \E admit \in BOOLEAN :
                  icuThread' = [icuThread EXCEPT
                      !["mgmt"].pc = IF admit THEN "admit_check" ELSE "discharge",
                      !["mgmt"].ret = "discharge",
                      !["mgmt"].todo = @ - 1]
    /\ UNCHANGED <<icu, notIcuVars>>

\* The discharge draw: "random.random() < rate and self.active_patients".
MgmtDischarge ==
    /\ icuThread["mgmt"].pc = "discharge"
    /\ \/ /\ icu.active_patients # {}
          /\ icuThread' = Call("mgmt", "dis_check", "sleep")
       \/ icuThread' = Goto("mgmt", "sleep")
    /\ UNCHANGED <<icu, notIcuVars>>

\* time.sleep(1), then the next pass.
MgmtSleep ==
    /\ icuThread["mgmt"].pc = "sleep"
    /\ icuThread' = Goto("mgmt", "loop")
    /\ UNCHANGED <<icu, notIcuVars>>

\* "except Exception": log_event, time.sleep(5), then the next pass.
MgmtError ==
    /\ icuThread["mgmt"].pc = "caught"
    /\ icuThread' = Goto("mgmt", "loop")
    /\ UNCHANGED <<icu, notIcuVars>>

\* admit_patient, "if len(self.active_patients) >= max_concurrent_patients":
\* at capacity it logs and returns None.
AdmitCheck(th) ==
    /\ icuThread[th].pc = "admit_check"
    /\ icuThread' =
          IF Cardinality(icu.active_patients) >= max_concurrent_patients
          THEN Return(th)
          ELSE Goto(th, "admit_id")
    /\ UNCHANGED <<icu, notIcuVars>>

\* patient_id = self.patient_id_counter
AdmitTakeId(th) ==
    /\ icuThread[th].pc = "admit_id"
    /\ icuThread' = [icuThread EXCEPT ![th].pc = "admit_load",
                                      ![th].patient_id = icu.patient_id_counter]
    /\ UNCHANGED <<icu, notIcuVars>>

\* self.patient_id_counter += 1: the read ...
AdmitLoadCounter(th) ==
    /\ icuThread[th].pc = "admit_load"
    /\ icuThread' = [icuThread EXCEPT ![th].pc = "admit_store",
                                      ![th].loaded = icu.patient_id_counter]
    /\ UNCHANGED <<icu, notIcuVars>>

\* ... and the write.
AdmitStoreCounter(th) ==
    /\ icuThread[th].pc = "admit_store"
    /\ icu' = [icu EXCEPT !.patient_id_counter = icuThread[th].loaded + 1]
    /\ icuThread' = Goto(th, "admit_insert")
    /\ UNCHANGED notIcuVars

\* self.active_patients[patient_id] = patient: an entry under the same key
\* is replaced.
AdmitInsert(th) ==
    /\ icuThread[th].pc = "admit_insert"
    /\ LET id == icuThread[th].patient_id
       IN  icu' = [icu EXCEPT
                     !.active_patients = @ \cup {id},
                     !.admitted = Append(@, id),
                     !.overwritten = IF id \in icu.active_patients
                                     THEN @ \cup {id} ELSE @]
    /\ icuThread' = Goto(th, "admit_count_load")
    /\ UNCHANGED notIcuVars

\* self.total_admissions += 1: the read ...
AdmitLoadTotal(th) ==
    /\ icuThread[th].pc = "admit_count_load"
    /\ icuThread' = [icuThread EXCEPT ![th].pc = "admit_count_store",
                                      ![th].loaded = icu.total_admissions]
    /\ UNCHANGED <<icu, notIcuVars>>

\* ... and the write; the method returns the patient.
AdmitStoreTotal(th) ==
    /\ icuThread[th].pc = "admit_count_store"
    /\ icu' = [icu EXCEPT !.total_admissions = icuThread[th].loaded + 1]
    /\ icuThread' = Return(th)
    /\ UNCHANGED notIcuVars

\* discharge_patient, "if not self.active_patients: return"; otherwise the
\* iteration over self.active_patients.items() starts: the iterator notes
\* the size of the dict.
DischargeCheck(th) ==
    /\ icuThread[th].pc = "dis_check"
    /\ icuThread' =
          IF icu.active_patients = {}
          THEN Return(th)
          ELSE [icuThread EXCEPT ![th].pc = "dis_scan",
                                 ![th].candidates = {},
                                 ![th].loaded = Cardinality(icu.active_patients)]
    /\ UNCHANGED <<icu, notIcuVars>>

\* One pass of "for patient_id, patient in self.active_patients.items()":
\* RuntimeError when the dict changed size since the iteration began,
\* otherwise the next entry joins discharge_candidates or the loop ends.
DischargeScan(th) ==
    /\ icuThread[th].pc = "dis_scan"
    /\ IF Cardinality(icu.active_patients) # icuThread[th].loaded
       THEN icuThread' = Raise(th)
       ELSE IF icu.active_patients \subseteq icuThread[th].candidates
       THEN icuThread' = Goto(th, "dis_pop")
       ELSE \E id \in icu.active_patients \ icuThread[th].candidates :
               icuThread' = [icuThread EXCEPT ![th].candidates = @ \cup {id}]
    /\ UNCHANGED <<icu, notIcuVars>>

\* The candidate with the highest discharge probability (any of them, the
\* probabilities depending on the stay) is popped: KeyError when it is no
\* longer in the dict.
DischargePop(th) ==
    /\ icuThread[th].pc = "dis_pop"
    /\ \E id \in icuThread[th].candidates :
          IF id \in icu.active_patients
          THEN /\ icu' = [icu EXCEPT !.active_patients = @ \ {id}]
               /\ icuThread' = [icuThread EXCEPT ![th].pc = "dis_count_load",
                                                 ![th].patient_id = id]
          ELSE /\ icuThread' = Raise(th)
               /\ UNCHANGED icu
    /\ UNCHANGED notIcuVars

\* self.total_discharges += 1: the read ...
DischargeLoadTotal(th) ==
    /\ icuThread[th].pc = "dis_count_load"
    /\ icuThread' = [icuThread EXCEPT ![th].pc = "dis_count_store",
                                      ![th].loaded = icu.total_discharges]
    /\ UNCHANGED <<icu, notIcuVars>>

\* ... and the write; the method returns.
DischargeStoreTotal(th) ==
    /\ icuThread[th].pc = "dis_count_store"
    /\ icu' = [icu EXCEPT !.total_discharges = icuThread[th].loaded + 1]
    /\ icuThread' = Return(th)
    /\ UNCHANGED notIcuVars

\* No packet flows and no harness runs while a program is modelled alone.
PipelineIdle ==
    /\ Started
    /\ harness = "timeout"
    /\ impSensor = NoValue
    /\ impResult = NoValue

IcuInit == PipelineIdle /\ ToolsIdle

IcuNext ==
    \/ StartThreads
    \/ InitialLoop
    \/ EndTest
    \/ CleanupLoop
    \/ MgmtLoop
    \/ MgmtDischarge
    \/ MgmtSleep
    \/ MgmtError
    \/ \E th \in IcuThreads : AdmitCheck(th)
    \/ \E th \in IcuThreads : AdmitTakeId(th)
    \/ \E th \in IcuThreads : AdmitLoadCounter(th)
    \/ \E th \in IcuThreads : AdmitStoreCounter(th)
    \/ \E th \in IcuThreads : AdmitInsert(th)
    \/ \E th \in IcuThreads : AdmitLoadTotal(th)
    \/ \E th \in IcuThreads : AdmitStoreTotal(th)
    \/ \E th \in IcuThreads : DischargeCheck(th)
    \/ \E th \in IcuThreads : DischargeScan(th)
    \/ \E th \in IcuThreads : DischargePop(th)
    \/ \E th \in IcuThreads : DischargeLoadTotal(th)
    \/ \E th \in IcuThreads : DischargeStoreTotal(th)

IcuSpec == IcuInit /\ [][IcuNext]_vars

\* Both threads are scheduled again and again.
IcuFairness == \A th \in IcuThreads :
    WF_vars(IcuNext /\ icuThread'[th] # icuThread[th])

IcuLiveSpec == IcuInit /\ [][IcuNext]_vars /\ IcuFairness

(***************************************************************************)
(* concurrency_test.py: ConcurrencyTester.get_next_patient_id_batch, called *)
(* by send_patient_burst once per step of run_concurrency_test with the    *)
(* patient counts the operator chose.                                      *)
(***************************************************************************)
\* Patient counts of a step: range(start, end + 1, step) of the operator's
\* input (100 to 10000 in steps of 500 by default, any integers in general).
BatchSizes == {1, 100, 600, 10000, 49001, 49002}

\* The list the call returns, list(range(start_id, start_id + num_patients)),
\* kept as its first element and its length.
range_list(start_id, num_patients) ==
    [start_id |-> start_id, num_patients |-> num_patients]

\* The elements of such a list.
Elements(ids) == ids.start_id .. (ids.start_id + ids.num_patients - 1)

\* start_id after the wrap check of get_next_patient_id_batch.
batch_start(counter, num_patients) ==
    IF counter + num_patients > max_patient_id THEN 1000 ELSE counter

\* One call get_next_patient_id_batch(num_patients).
GetNextPatientIdBatch ==
    /\ Len(concurrency.batches) < MaxBatchCalls
    /\ \E num_patients \in BatchSizes :
          LET start_id == batch_start(concurrency.patient_id_counter, num_patients)
          IN  concurrency' =
                [patient_id_counter |-> start_id + num_patients + 50,
                 batches |-> Append(concurrency.batches,
                               [asked |-> num_patients,
                                patient_ids |-> range_list(start_id, num_patients)])]
    /\ UNCHANGED notConcurrencyVars

ConcurrencyInit == PipelineIdle /\ ToolsIdle

ConcurrencySpec == ConcurrencyInit /\ [][GetNextPatientIdBatch]_vars

(***************************************************************************)
(* timeout_test.py and latency_test.py: the sending loop of run_*_test and *)
(* alert_handler, the callback of the monitor thread's sniff().            *)
(***************************************************************************)
Testers == {"timeout", "latency"}

\* Patient ids an Alert packet can carry: 0, the ids the run sends, and an
\* id the run never sends.
AlertIds(tester) ==
    LET first == IF tester = "timeout" THEN 1500 ELSE 1000
    IN  {0, 9999} \cup (first .. (first + MaxScenarios - 1))

\* A variant that keeps the entry after recording.
forget_keep(sent, patient_id) == sent

\* del self.sent_scenarios[patient_id] / del self.sent_times[patient_id]
forget(sent, patient_id) == sent \ {patient_id}

\* send_scenario / send_complete_window / send_partial_window: the entry of
\* the sent map is written, the readings go out; the loop then takes the
\* next patient_id.
SendScenario ==
    /\ Len(SelectSeq(monitor.events, LAMBDA e : e.kind = "send")) < MaxScenarios
    /\ monitor.monitoring_active
    /\ monitor' = [monitor EXCEPT
                      !.sent = @ \cup {monitor.patient_id},
                      !.patient_id = @ + 1,
                      !.events = Append(@, [kind |-> "send",
                                            patient_id |-> monitor.patient_id])]
    /\ UNCHANGED notMonitorVars

\* alert_handler(pkt) for an Alert packet carrying patient_id.
AlertHandler ==
    /\ Len(SelectSeq(monitor.events, LAMBDA e : e.kind = "alert")) < MaxAlerts
    /\ \E patient_id \in AlertIds(monitor.tester) :
          LET ev == [kind |-> "alert", patient_id |-> patient_id]
          IN  IF /\ monitor.monitoring_active
                 /\ patient_id # 0
                 /\ patient_id \in monitor.sent
              THEN monitor' = [monitor EXCEPT
                                 !.data = Append(@, patient_id),
                                 !.sent = forget(@, patient_id),
                                 !.events = Append(@, ev)]
              ELSE monitor' = [monitor EXCEPT !.events = Append(@, ev)]
    /\ UNCHANGED notMonitorVars

\* The run is over: self.monitoring_active = False.
StopMonitoring ==
    /\ monitor.monitoring_active
    /\ monitor' = [monitor EXCEPT
                      !.monitoring_active = FALSE,
                      !.events = Append(@, [kind |-> "stop", patient_id |-> 0])]
    /\ UNCHANGED notMonitorVars

MonitorInit ==
    /\ PipelineIdle
    /\ ToolsIdleExcept("monitor")
    /\ \E tester \in Testers : MonitorConstructed(tester)

MonitorNext == SendScenario \/ AlertHandler \/ StopMonitoring

MonitorSpec == MonitorInit /\ [][MonitorNext]_vars

(***************************************************************************)
(* src/sensors_simulator.py (the window loop at module level) and          *)
(* full_version/src/sensors_simulator_batch.py (process_patient_window,    *)
(* run by one process_patient thread per patient; -n 1 by default, so the  *)
(* patients follow one another).  The statements of a thread take no time: *)
(* the clock advances only when every thread is sleeping or blocked.       *)
(***************************************************************************)
Simulators == {"sensors_simulator", "sensors_simulator_batch"}
SimPatients == {1, 2}

\* The rows a run can be given: any order of patients for the loop over
\* Test_Data.iterrows(), grouped by patient for the batch simulator.
SimRows(program) ==
    {rows \in [1 .. MaxRows -> SimPatients] :
        program = "sensors_simulator_batch" =>
            \A i, j \in 1 .. MaxRows : i < j => rows[i] <= rows[j]}

\* Outcomes of random.uniform considered: both ends of each interval; raw
\* is the raw draw, different from sensor to sensor.
uniform(a, b, raw) == IF raw % 2 = 0 THEN a ELSE b

\* The delay drawn for sensor_id.
delay_of(program, late_window, sensor_id, raw) ==
    IF sensor_id \in {5, 6, 7, 8, 9} THEN uniform(0, 59, raw)
    ELSE IF late_window
    THEN IF program = "sensors_simulator" THEN uniform(60, 80, raw)
                                          ELSE uniform(75, 85, raw)
    ELSE uniform(0, 59, raw)

\* A variant that starts the next window at once.
wait_time_none(elapsed) == 0

\* wait_time = max(0, window_total - elapsed)
wait_time(elapsed) ==
    IF window_total - elapsed > 0 THEN window_total - elapsed ELSE 0

\* The next row: window_start = time.time(), late_window is drawn.
StartWindow ==
    /\ sim.pc = "window"
    /\ sim.idx < Len(sim.rows)
    /\ \E late_window \in BOOLEAN : \E draw \in RawDraws :
          sim' = [sim EXCEPT
                    !.idx = @ + 1,
                    !.pc = "spawn",
                    !.window_start = sim.now,
                    !.late_window = late_window,
                    !.draw = draw,
                    !.sensor_id = 0,
                    !.started = Append(@, [patient_id |-> sim.rows[sim.idx + 1],
                                           window |-> sim.idx + 1,
                                           time |-> sim.now])]
    /\ UNCHANGED notSimVars

\* One pass of "for sensor_id, col in enumerate(sensor_columns)": the delay
\* is drawn and the thread started; after the last sensor the joins begin.
SpawnSensor ==
    /\ sim.pc = "spawn"
    /\ IF sim.sensor_id < NumFeatures
       THEN LET delay == delay_of(sim.program, sim.late_window, sim.sensor_id,
                                  sim.draw + sim.sensor_id)
            IN  sim' = [sim EXCEPT
                          !.sensor_id = @ + 1,
                          !.threads[sim.idx][sim.sensor_id] =
                              IF delay <= 60
                              THEN [state |-> "sleeping", wake |-> sim.now + delay]
                              ELSE [state |-> "late", wake |-> 0]]
       ELSE sim' = [sim EXCEPT !.pc = "join"]
    /\ UNCHANGED notSimVars

\* send_after_delay of a started thread: after time.sleep(delay) the packet
\* is sent; a thread whose delay is above 60 prints and ends.
SendAfterDelay ==
    /\ \E w \in 1 .. Len(sim.rows) : \E s \in Sensors :
          LET th == sim.threads[w][s]
          IN  \/ /\ th.state = "sleeping"
                 /\ th.wake <= sim.now
                 /\ sim' = [sim EXCEPT
                       !.threads[w][s].state = "sent",
                       !.sent = @ \cup {[patient_id |-> sim.rows[w], window |-> w,
                                         sensor_id |-> s, during |-> sim.idx]}]
              \/ /\ th.state = "late"
                 /\ sim' = [sim EXCEPT !.threads[w][s].state = "skipped"]
    /\ UNCHANGED notSimVars

\* "for t in threads: t.join()" returns when every thread of the window has
\* ended; the wait for the remainder of the window is computed.
JoinThreads ==
    /\ sim.pc = "join"
    /\ \A s \in Sensors : sim.threads[sim.idx][s].state \in {"sent", "skipped"}
    /\ sim' = [sim EXCEPT
                  !.pc = "sleep",
                  !.wake = sim.now + wait_time(sim.now - sim.window_start)]
    /\ UNCHANGED notSimVars

\* time.sleep(wait_time) returns: the next pass of the window loop, or the
\* end of the data.
EndWindow ==
    /\ sim.pc = "sleep"
    /\ sim.wake <= sim.now
    /\ sim' = [sim EXCEPT !.pc = IF sim.idx < Len(sim.rows) THEN "window" ELSE "done"]
    /\ UNCHANGED notSimVars

\* The times at which a sleeping thread is due.
SimDeadlines ==
    {sim.threads[w][s].wake : w \in 1 .. Len(sim.rows), s \in Sensors} \cup
    (IF sim.pc = "sleep" THEN {sim.wake} ELSE {})

\* Every thread sleeps or is blocked: the clock moves to the next time at
\* which one is due.
SimTick ==
    /\ sim.pc \in {"join", "sleep"}
    /\ \A w \in 1 .. Len(sim.rows) : \A s \in Sensors :
          /\ sim.threads[w][s].state # "late"
          /\ sim.threads[w][s].state = "sleeping" => sim.threads[w][s].wake > sim.now
    /\ sim.pc = "sleep" => sim.wake > sim.now
    /\ sim.pc = "join" =>
          \E s \in Sensors : sim.threads[sim.idx][s].state = "sleeping"
    /\ LET due == {d \in SimDeadlines : d > sim.now}
       IN  /\ due # {}
           /\ sim' = [sim EXCEPT !.now = CHOOSE d \in due : \A e \in due : d <= e]
    /\ UNCHANGED notSimVars

SimInit ==
    /\ PipelineIdle
    /\ ToolsIdleExcept("sim")
    /\ \E program \in Simulators : \E rows \in SimRows(program) :
          SimLoaded(program, rows)

SimNext ==
    \/ StartWindow
    \/ SpawnSensor
    \/ SendAfterDelay
    \/ JoinThreads
    \/ EndWindow
    \/ SimTick

SimSpec == SimInit /\ [][SimNext]_vars

(***************************************************************************)
(* The table utilities of Full_version_same_feats: merge_table_entries.py  *)
(* merges the feature entries of the two models, fix_table_entries.py and  *)
(* quick_fix_priorities.py rewrite the merged file.  A line is the         *)
(* sequence of its whitespace-separated words, the empty line <<>>; the    *)
(* scripts strip every line they read and the merged file is written with  *)
(* single spaces.                                                          *)
(***************************************************************************)
\* Number of feature entries in the two command files together.
MaxTableEntries == 3

Digits == <<"0", "1", "2", "3", "4", "5", "6", "7", "8", "9">>

\* str(n) of a non-negative int, as the f-strings format a priority.
RECURSIVE str(_)
str(n) ==
    IF n < 10 THEN Digits[n + 1] ELSE str(n \div 10) \o Digits[(n % 10) + 1]

\* int(s) of a feature number (one digit here).
int(s) == (CHOOSE d \in 1 .. Len(Digits) : Digits[d] = s) - 1

\* The feature numbers, match keys and codes of the command files;
\* MatchKeys lists the keys in the order Python compares the strings.
FeatureNums == {"0", "1"}
MatchKeys == <<"100&&&1008", "400&&&1008", "96&&&1008">>
Codes == [sep |-> {"5"}, hf |-> {"7"}]
None == "None"

\* sorted(S, key=...): key is a function on S with distinct values.
RECURSIVE sorted(_, _)
sorted(S, key) ==
    IF S = {} THEN <<>>
    ELSE LET m == CHOOSE x \in S : \A y \in S : key[x] <= key[y]
         IN  <<m>> \o sorted(S \ {m}, key)

str_order(S) == [k \in S |-> CHOOSE i \in 1 .. Len(MatchKeys) : MatchKeys[i] = k]

\* read_table_file: feature_num -> the entries of that feature in file
\* order; a feature without entries is not a key.
read_table_file(model) ==
    LET mine == SelectSeq(tables.entries, LAMBDA e : e.model = model)
    IN  [f \in {mine[i].feature_num : i \in 1 .. Len(mine)} |->
            SelectSeq(mine, LAMBDA e : e.feature_num = f)]

\* features.get(feature_num, [])
get(features, feature_num) ==
    IF feature_num \in DOMAIN features THEN features[feature_num] ELSE <<>>

\* The code a model's loop leaves in match_key_codes[match_key]: that of
\* its last entry with the key, None without one.
code_val(entries, match_key) ==
    LET at == {i \in 1 .. Len(entries) : entries[i].match_key = match_key}
    IN  IF at = {} THEN None
        ELSE entries[CHOOSE i \in at : \A j \in at : j <= i].code_val

code_or_zero_none(code) == code

\* "Default to 0 if code is missing for one model".
code_or_zero(code) == IF code = None THEN "0" ELSE code

merged_line(feature_num, match_key, sep_code, hf_code, priority) ==
    <<"table_add", "SwitchIngress.lookup_feature" \o feature_num,
      "extract_feature" \o feature_num \o "_dual", match_key, "=>",
      sep_code, hf_code, str(priority)>>

\* The body of the loop over the features: the merged entries of one
\* feature and the empty line after them.
feature_table(feature_num, sep_entries, hf_entries) ==
    LET keys == {sep_entries[i].match_key : i \in 1 .. Len(sep_entries)}
                  \cup {hf_entries[i].match_key : i \in 1 .. Len(hf_entries)}
        order == sorted(keys, str_order(keys))
    IN  [p \in 1 .. Len(order) |->
            merged_line(feature_num, order[p],
                        code_or_zero(code_val(sep_entries, order[p])),
                        code_or_zero(code_val(hf_entries, order[p])),
                        p - 1)] \o << <<>> >>

RECURSIVE merge_tables(_, _, _)
merge_tables(order, sep_features, hf_features) ==
    IF order = <<>> THEN <<>>
    ELSE feature_table(Head(order), get(sep_features, Head(order)),
                       get(hf_features, Head(order)))
           \o merge_tables(Tail(order), sep_features, hf_features)

merge_feature_entries(sep_features, hf_features) ==
    LET all_features == DOMAIN sep_features \cup DOMAIN hf_features
    IN  merge_tables(sorted(all_features, [f \in all_features |-> int(f)]),
                     sep_features, hf_features)

\* process_leaf_entries on the one leaf entry each command file has here.
process_leaf_entries(suffix) ==
    << <<"table_add", "SwitchIngress.lookup_leaf_id0" \o suffix,
         "read_prob0" \o suffix, "0", "0", "=>", "0", "8">> >>

\* The lines main() writes to tables/s1-commands-merged.txt.
write_merged(merged_features, sep_leaf_entries, hf_leaf_entries) ==
    << <<"#", "Merged", "table", "entries">>,
       <<"#", "Generated", "by", "merge_table_entries.py">>,
       <<>>,
       <<"#", "Feature", "extraction", "tables">> >>
      \o merged_features
      \o << <<>>, <<"#", "Sepsis", "model", "leaf/decision", "tables">> >>
      \o sep_leaf_entries
      \o << <<>>, <<"#", "Heart", "failure", "model", "leaf/decision", "tables">> >>
      \o hf_leaf_entries

\* 'word in line' for the words the scripts look for: the words of the
\* files that contain it.
contains(line, words) == \E i \in 1 .. Len(line) : line[i] \in words
ExtractFeatureWords ==
    {"extract_feature" \o f \o d : f \in FeatureNums, d \in {"", "_dual"}}
DualWords == {"extract_feature" \o f \o "_dual" : f \in FeatureNums}

\* "not line or line.startswith('#')"
skipped(line) == line = <<>> \/ line[1] = "#"

\* fix_table_entries.py: what fix_merged_tables writes for one line.
fix_line(line) ==
    IF skipped(line) THEN line
    ELSE IF contains(line, ExtractFeatureWords) /\ contains(line, DualWords)
         THEN IF Len(line) >= 7 THEN SubSeq(line, 1, Len(line) - 1) ELSE line
         ELSE line

fix_merged_tables(lines) == [i \in 1 .. Len(lines) |-> fix_line(lines[i])]

\* line.split(' => '): the places of the separator inside the line.
arrows(line) == {i \in 2 .. (Len(line) - 1) : line[i] = "=>"}

\* quick_fix_priorities.py: the loop over the lines from line i on with
\* priority_counter as it stands, giving the lines appended to fixed_lines.
RECURSIVE quick_fix_loop(_, _, _)
quick_fix_loop(lines, i, priority_counter) ==
    IF i > Len(lines) THEN <<>>
    ELSE LET line == lines[i]
             at == CHOOSE a \in arrows(line) : TRUE
             left_part == SubSeq(line, 1, at - 1)
             params == SubSeq(line, at + 1, Len(line))
         IN  IF skipped(line)
             THEN <<line>> \o quick_fix_loop(lines, i + 1, priority_counter)
             ELSE IF /\ contains(line, ExtractFeatureWords)
                     /\ contains(line, DualWords)
                     /\ contains(line, {"=>"})
                  THEN IF Cardinality(arrows(line)) + 1 = 2 /\ Len(params) >= 3
                       THEN <<left_part \o <<"=>", params[1], params[2],
                                              str(priority_counter)>> >>
                              \o quick_fix_loop(lines, i + 1, priority_counter + 1)
                       ELSE <<line>>
                              \o quick_fix_loop(lines, i + 1, priority_counter)
                  ELSE <<line>>
                         \o quick_fix_loop(lines, i + 1,
                                           IF line = <<>> THEN 0
                                           ELSE priority_counter)

quick_fix_priorities(lines) == quick_fix_loop(lines, 1, 0)

\* merge_table_entries.py main().
MergeMain ==
    /\ LET merged_features == merge_feature_entries(read_table_file("sep"),
                                                    read_table_file("hf"))
       IN  tables' = [tables EXCEPT
                        !.merged_features = merged_features,
                        !.merged = write_merged(merged_features,
                                                process_leaf_entries("_sep"),
                                                process_leaf_entries("_hf")),
                        !.written = @ \cup {"merged"}]
    /\ UNCHANGED notTablesVars

\* fix_table_entries.py on the merged file.
FixMergedTables ==
    /\ "merged" \in tables.written
    /\ tables' = [tables EXCEPT !.fixed = fix_merged_tables(tables.merged),
                                !.written = @ \cup {"fixed"}]
    /\ UNCHANGED notTablesVars

\* quick_fix_priorities.py on the merged file.
QuickFixPriorities ==
    /\ "merged" \in tables.written
    /\ tables' = [tables EXCEPT
                    !.corrected = quick_fix_priorities(tables.merged),
                    !.written = @ \cup {"corrected"}]
    /\ UNCHANGED notTablesVars

\* The feature entries the command files can hold.
TableEntries ==
    {e \in [model : {"sep", "hf"}, feature_num : FeatureNums,
            match_key : {MatchKeys[i] : i \in 1 .. Len(MatchKeys)},
            code_val : Codes.sep \cup Codes.hf] :
        e.code_val \in Codes[e.model]}

TablesInit ==
    /\ PipelineIdle
    /\ ToolsIdleExcept("tables")
    /\ \E n \in 0 .. MaxTableEntries :
         \E entries \in [1 .. n -> TableEntries] : TablesLoaded(entries)

TablesNext == MergeMain \/ FixMergedTables \/ QuickFixPriorities

TablesSpec == TablesInit /\ [][TablesNext]_vars

(***************************************************************************)
(* Properties.                                                             *)
(***************************************************************************)
\* Submissions made for window w of patient p, and vectors of that window
\* still waiting for handle_packet_in.
SubsOf(p, w) ==
    {i \in 1 .. Len(submissions[p]) : submissions[p][i].about.win = w}
PendingOf(p, w) ==
    {i \in 1 .. Len(pktIn) : /\ pktIn[i].type = "Planter"
                             /\ pktIn[i].patient_id = p
                             /\ pktIn[i].about.win = w}
\* The audit-log rows written while handled[i] was processed.
RowsOf(i) == SubSeq(csvLog, handled[i].logFrom + 1, handled[i].logTo)
RowSensors(i) == {RowsOf(i)[k].sensor_id : k \in 1 .. Len(RowsOf(i))}

\* C1: every finalized window of every patient has exactly one submission,
\* made already or, while its vector still waits in the PacketIn stream,
\* still to be made by handle_packet_in; never two, and never a submission
\* for a window that has not been finalized - whatever the interleaving of
\* readings, heartbeat ticks and the packet-in path.
C1_ExactlyOnce ==
    \A p \in PatientIds :
        /\ \A w \in 0 .. (wseq[p] - 1) :
               Cardinality(SubsOf(p, w)) + Cardinality(PendingOf(p, w)) = 1
        /\ \A i \in 1 .. Len(submissions[p]) : submissions[p][i].about.win < wseq[p]
        /\ \A i \in 1 .. Len(pktIn) :
               pktIn[i].patient_id = p => pktIn[i].about.win < wseq[p]

\* A patient whose first window was forced by a heartbeat and submitted by
\* the controller, and whose second window was completed by a reading.
C1_Witness ==
    \E p \in PatientIds :
        /\ wseq[p] = 2
        /\ Len(submissions[p]) = 2
        /\ submissions[p][1].via = "controller"
        /\ submissions[p][2].via = "switch"

\* The windows of the scenario "sensors 0-5 only" that the controller handled.
SixOfTen == 0 .. 5
HandledSix ==
    {i \in 1 .. Len(handled) : handled[i].received.about.observed = SixOfTen}

C3_CompleteImmediate ==
    [][\A p \in PatientIds :
        LET sending == hscen[p] # <<>> /\ hscen'[p] = Tail(hscen[p])
            n == Len(submissions'[p])
        IN  /\ (sending /\ Observed(window[p]) = Sensors \ {Head(hscen[p])}) =>
                  /\ n = Len(submissions[p]) + 1
                  /\ submissions'[p][n].via = "switch"
                  /\ submissions'[p][n].about.observed = Sensors
                  /\ \A s \in Sensors \ {Head(hscen[p])} :
                         submissions'[p][n].feature[s] = window[p].slots[s]
                  /\ csvLog' = csvLog
                  /\ pktIn' = pktIn
                  /\ handled' = handled
            /\ (n > Len(submissions[p]) /\ submissions'[p][n].via = "switch") =>
                  /\ sending
                  /\ csvLog' = csvLog
                  /\ \A s \in Sensors :
                         submissions'[p][n].feature[s] \in Values(harness, s)
      ]_vars

\* A complete window has been submitted by the switch.
C3_Witness ==
    \E p \in PatientIds : \E i \in 1 .. Len(submissions[p]) :
        /\ submissions[p][i].via = "switch"
        /\ submissions[p][i].about.observed = Sensors
        /\ csvLog = <<>>

\* C4 as stated: every vector the controller sends on carries, in each slot
\* that was observed in the window, the value that was observed.
C4_Original ==
    \A i \in 1 .. Len(handled) :
        \A s \in handled[i].received.about.observed :
            handled[i].sent.feature[s] = handled[i].received.feature[s]

\* A step of the harness that delivers a reading of patient p to the switch.
Reading(p) == hscen[p] # <<>> /\ hscen'[p] = Tail(hscen[p])

\* A step that force-finalizes the window of patient p: its vector is punted
\* to the controller.
Forced(p) ==
    /\ Len(pktIn') = Len(pktIn) + 1
    /\ pktIn'[Len(pktIn')].patient_id = p

\* C5 as stated: a window with a slot missing is force-finalized when its age
\* is between WINDOW_TIMEOUT and WINDOW_TIMEOUT + HEARTBEAT_NS, and so never
\* stands unfinalized at a greater age.
C5_Original ==
    [][\A p \in PatientIds :
        /\ Forced(p) =>
               /\ window[p].age >= WINDOW_TIMEOUT
               /\ window[p].age <= WINDOW_TIMEOUT + HEARTBEAT_NS
        /\ ~IsEmpty(window'[p]) =>
               window'[p].age <= WINDOW_TIMEOUT + HEARTBEAT_NS
      ]_vars

\* C6 as stated: for every patient id that sends readings, also one at or
\* above NUM_PATIENTS, a window that holds a reading is eventually finalized
\* and a vector is submitted for it.
C6_Original ==
    \A p \in PatientIds : \A w \in 0 .. MaxWindows :
        (wseq[p] = w /\ ~IsEmpty(window[p])) ~> (SubsOf(p, w) # {})

\* C7: finalizing a window resets every slot of it; the next reading of the
\* patient starts a window that holds that reading alone, with age 0, and
\* is neither added to a vector already taken from the finalized window nor
\* makes a submission; submissions already made never change, and a reading
\* never produces a submission for a window finalized before it arrived.
C7_NewWindow ==
    [][\A p \in PatientIds :
        /\ wseq'[p] # wseq[p] =>
               /\ wseq'[p] = wseq[p] + 1
               /\ window'[p] = EmptyWindow
        /\ (Reading(p) /\ wseq[p] >= 1 /\ IsEmpty(window[p])) =>
               /\ Observed(window'[p]) = {Head(hscen[p])}
               /\ window'[p].age = 0
               /\ submissions'[p] = submissions[p]
               /\ pktIn' = pktIn
        /\ Len(submissions'[p]) >= Len(submissions[p])
        /\ \A i \in 1 .. Len(submissions[p]) : submissions'[p][i] = submissions[p][i]
        /\ Reading(p) =>
               /\ \A i \in 1 .. Len(pktIn) : i <= Len(pktIn') /\ pktIn'[i] = pktIn[i]
               /\ \A i \in (Len(submissions[p]) + 1) .. Len(submissions'[p]) :
                      submissions'[p][i].about.win = wseq[p]
      ]_vars

\* A patient with a finalized window and readings in the next one.
C7_Witness ==
    \E p \in PatientIds :
        /\ wseq[p] >= 1
        /\ ~IsEmpty(window[p])
        /\ window[p].age = 0
        /\ Len(submissions[p]) = 1

\* C8: impute_value returns a value inside the sensor's range - 0: 350..400,
\* 1: 90..100, 2: 60..100, 3: 100..140, 4: 12..20, 5: 0..3, 6: 0..1,
\* 8: 30..80, 9: 0..1 - and the constant 1 for every other sensor_id.
C8_Range ==
    impResult # NoValue =>
        impResult \in (CASE impSensor = 0 -> 350 .. 400
                         [] impSensor = 1 -> 90 .. 100
                         [] impSensor = 2 -> 60 .. 100
                         [] impSensor = 3 -> 100 .. 140
                         [] impSensor = 4 -> 12 .. 20
                         [] impSensor = 5 -> 0 .. 3
                         [] impSensor = 6 -> 0 .. 1
                         [] impSensor = 8 -> 30 .. 80
                         [] impSensor = 9 -> 0 .. 1
                         [] OTHER -> {1})

\* impute_value(0) has returned the upper end of its range.
C8_Witness == impSensor = 0 /\ impResult = 400

\* The slots of handled[i] that the controller imputed.
ImputedSlots(i) ==
    {s \in Sensors : handled[i].sent.feature[s] # handled[i].received.feature[s]}

\* C9: the audit log consists of the rows written for the vectors processed
\* so far, in order, and nothing else; for each vector there is exactly one
\* row per imputed slot, holding the vector's patient_id, the slot's
\* sensor_id, old_value 0 and the value written into the submitted vector.
C9_LoggedOnce ==
    /\ handled = <<>> => csvLog = <<>>
    /\ handled # <<>> =>
           /\ handled[1].logFrom = 0
           /\ handled[Len(handled)].logTo = Len(csvLog)
    /\ \A i \in 1 .. (Len(handled) - 1) : handled[i + 1].logFrom = handled[i].logTo
    /\ \A i \in 1 .. Len(handled) :
           /\ Len(RowsOf(i)) = Cardinality(ImputedSlots(i))
           /\ RowSensors(i) = ImputedSlots(i)
           /\ \A k \in 1 .. Len(RowsOf(i)) :
                  /\ RowsOf(i)[k].patient_id = handled[i].received.patient_id
                  /\ RowsOf(i)[k].old_value = 0
                  /\ RowsOf(i)[k].new_value =
                         handled[i].sent.feature[RowsOf(i)[k].sensor_id]

\* Two vectors have been processed, the second with several imputed slots.
C9_Witness ==
    /\ Len(handled) = 2
    /\ Len(RowsOf(1)) >= 1
    /\ Len(RowsOf(2)) >= 2

\* C10: when the heartbeat thread sleeps, the pass before the sleep has sent
\* exactly one heartbeat for each patient_id 0..NUM_PATIENTS-1 and for no
\* other id, each with sensor_id 999 and feature_value 0; during a pass the
\* ids below the loop variable have been served, once each.
C10_TickCoverage ==
    /\ \A i \in 1 .. Len(hbSent) :
           /\ hbSent[i].patient_id = i - 1
           /\ hbSent[i].patient_id \in 0 .. (NUM_PATIENTS - 1)
           /\ hbSent[i].sensor_id = 999
           /\ hbSent[i].feature_value = 0
    /\ hbPc = "sleep" => Len(hbSent) = NUM_PATIENTS
    /\ hbPc = "send" => Len(hbSent) = hbPid

\* The thread sleeps after its second pass.
C10_Witness ==
    /\ hbPc = "sleep"
    /\ sleepLeft = HEARTBEAT_NS
    /\ Len(hbSent) = NUM_PATIENTS
    /\ \E p \in PatientIds : window[p].age > 0

\* Patient ids whose heartbeat was handed to PacketOut in the current tick.
SentPids == {hbSent[i].patient_id : i \in 1 .. Len(hbSent)}

\* C11: when the PacketOut of a heartbeat raises, the heartbeat thread stays
\* in its loop: in every tick each patient id of range(NUM_PATIENTS) gets
\* its heartbeat attempt exactly once, the ids after a failed one included,
\* every id whose attempt did not fail has its heartbeat sent, and the
\* thread goes on to sleep and to the next tick.
C11_HeartbeatIsolated ==
    /\ hbPc \in {"send", "sleep"}
    /\ SentPids \cap hbFailed = {}
    /\ Len(hbSent) = Cardinality(SentPids)
    /\ SentPids \cup hbFailed =
          0 .. ((IF hbPc = "send" THEN hbPid ELSE NUM_PATIENTS) - 1)

\* The heartbeat of patient 0 failed; those of all other patients of the
\* tick were sent and the thread sleeps until the next tick.
C11_Witness ==
    /\ hbPc = "sleep"
    /\ hbFailed = {0}
    /\ SentPids = 1 .. (NUM_PATIENTS - 1)

\* C12: a heartbeat for a patient whose window is empty changes nothing: no
\* vector is submitted or punted to the controller, no audit row is
\* written, and the window stays empty.
C12_EmptyWindowHeartbeat ==
    [][(hbPc = "send" /\ hbPid' = hbPid + 1 /\ IsEmpty(window[hbPid])) =>
          /\ submissions' = submissions
          /\ pktIn' = pktIn
          /\ csvLog' = csvLog
          /\ handled' = handled
          /\ window' = window
          /\ wseq' = wseq
      ]_vars

\* A tick has passed over a patient whose first window had been completed
\* and submitted, and whose window has been empty since.
C12_Witness ==
    \E p \in HeartbeatPatients :
        /\ hbPc = "sleep"
        /\ p \in SentPids
        /\ IsEmpty(window[p])
        /\ wseq[p] = 1
        /\ hwin[p] = 1
        /\ hscen[p] = <<>>
        /\ Len(submissions[p]) = 1
        /\ pktIn = <<>>
        /\ csvLog = <<>>

\* The vectors of window w of patient p that parse_packet has processed,
\* whatever the outcome: each is one attempt to send the vector on.
AttemptsOf(p, w) ==
    {i \in 1 .. Len(handled) : /\ handled[i].received.patient_id = p
                               /\ handled[i].received.about.win = w}

\* C13: a vector whose PacketOut failed is given up: for its window there
\* is that one attempt and no other, no submission, and no vector waiting
\* to be processed again, while the window counts as finalized; no window
\* ever has more than one attempt or more than one submission.
C13_NoRetry ==
    /\ \A i \in 1 .. Len(handled) :
          handled[i].outcome = "send_failed" =>
             LET p == handled[i].received.patient_id
                 w == handled[i].received.about.win
             IN  /\ AttemptsOf(p, w) = {i}
                 /\ SubsOf(p, w) = {}
                 /\ PendingOf(p, w) = {}
                 /\ w < wseq[p]
    /\ \A p \in PatientIds : \A w \in 0 .. (wseq[p] - 1) :
          /\ Cardinality(AttemptsOf(p, w)) + Cardinality(PendingOf(p, w)) <= 1
          /\ Cardinality(SubsOf(p, w)) <= 1

\* The send for a patient's first window failed; the patient's next window
\* has since been finalized and submitted, the first one was not resent.
C13_Witness ==
    \E i \in 1 .. Len(handled) :
        LET p == handled[i].received.patient_id
        IN  /\ handled[i].outcome = "send_failed"
            /\ handled[i].received.about.win = 0
            /\ wseq[p] = 2
            /\ Len(submissions[p]) = 1
            /\ submissions[p][1].about.win = 1
            /\ pktIn = <<>>

\* C14: the step in which the controller takes a payload that does not
\* decode as a Planter packet from the stream removes it and changes
\* nothing else - no submission, no audit row, no change to any window or
\* thread - so what follows is processed from the state the system would
\* be in had the payload never arrived.
C14_MalformedDropped ==
    [][(/\ pktIn # <<>>
        /\ Head(pktIn).type # "Planter"
        /\ Len(pktIn') < Len(pktIn)) =>
          /\ pktIn' = Tail(pktIn)
          /\ <<window, wseq, hbPc, hbPid, sleepLeft, hbSent, csvLog, handled,
               submissions, harness, hwin, hscen, hbFailed, ctlPc, faults>>' =
             <<window, wseq, hbPc, hbPid, sleepLeft, hbSent, csvLog, handled,
               submissions, harness, hwin, hscen, hbFailed, ctlPc, faults>>
      ]_vars

\* A payload on which the decoding raises is next in the stream, and a
\* vector punted by the switch waits behind it.
C14_Witness ==
    /\ ctlPc = "run"
    /\ Len(pktIn) = 2
    /\ pktIn[1].type = "garbage"
    /\ pktIn[2].type = "Planter"

\* C15: whatever failures have occurred - a PacketIn call or a heartbeat
\* PacketOut that raised, an undecodable payload, a failed write to the
\* audit log, a failed PacketOut of a vector - the packet-in loop is still
\* running and takes the next packet of the stream when there is one, and
\* the heartbeat thread is still in its loop.
C15_NoFatalFailure ==
    /\ ctlPc = "run"
    /\ hbPc \in {"send", "sleep"}
    /\ pktIn # <<>> => ENABLED HandlePacketIn
    /\ (hbPc = "send" /\ hbPid \in 0 .. (NUM_PATIENTS - 1)) => ENABLED HeartbeatSend
    /\ (hbPc = "sleep" /\ sleepLeft = 0) => ENABLED HeartbeatWake

\* The write of an audit row failed while the first vector was processed;
\* the next vector has been processed and submitted, and the heartbeat
\* thread has completed a further tick.
C15_Witness ==
    /\ Len(handled) = 2
    /\ handled[1].outcome = "log_failed"
    /\ handled[2].outcome = "sent"
    /\ Len(csvLog) > handled[2].logFrom
    /\ hbPc = "sleep"

\* C16: a vector reaches the controller, where slots are imputed and audit
\* rows written, only from a heartbeat that found a non-empty window of age
\* WINDOW_TIMEOUT or more with a slot unobserved; audit rows are written
\* only while such a vector is processed, and they carry its patient_id; a
\* window submitted on completion gets no audit row.
C16_ImputeOnlyForced ==
    [][/\ Len(pktIn') > Len(pktIn) =>
             /\ hbPc = "send"
             /\ hbPid' = hbPid + 1
             /\ window[hbPid].age >= WINDOW_TIMEOUT
             /\ Observed(window[hbPid]) # {}
             /\ Observed(window[hbPid]) # Sensors
             /\ pktIn' = Append(pktIn, pktIn'[Len(pktIn')])
             /\ pktIn'[Len(pktIn')].patient_id = hbPid
             /\ pktIn'[Len(pktIn')].about = About(window[hbPid], wseq[hbPid])
       /\ csvLog' # csvLog =>
             /\ pktIn # <<>>
             /\ pktIn' = Tail(pktIn)
             /\ Head(pktIn).about.observed # Sensors
             /\ Len(csvLog') > Len(csvLog)
             /\ SubSeq(csvLog', 1, Len(csvLog)) = csvLog
             /\ \A k \in (Len(csvLog) + 1) .. Len(csvLog') :
                    csvLog'[k].patient_id = Head(pktIn).patient_id
       /\ \A p \in PatientIds :
             (/\ Len(submissions'[p]) > Len(submissions[p])
              /\ submissions'[p][Len(submissions'[p])].about.observed = Sensors) =>
                csvLog' = csvLog
      ]_vars

\* The vector of a timed-out window with sensors 0, 2, 5, 7, 9 observed has
\* been processed: slots were imputed and audit rows written for it.
C16_Witness ==
    \E i \in 1 .. Len(handled) :
        /\ handled[i].received.about.observed = {0, 2, 5, 7, 9}
        /\ Len(RowsOf(i)) >= 3

\* The values parse_packet can write into slot s of a received vector.
ImputableValues(pkt, s) ==
    {Imputed(pkt, draw).feature[s] : draw \in [ToImpute(pkt) -> RawDraws]}

\* C17: the values that can be imputed for a missing slot depend on its
\* sensor_id alone: for the vector processed last and any other vector with
\* the same slot missing - whatever its patient_id, timestamp and other
\* slots - the sets of values that can be written into the slot are the
\* same, and the value that was written is one of them.
C17_PerSlot ==
    handled # <<>> =>
        LET last == handled[Len(handled)]
        IN  \A s \in ToImpute(last.received) :
                LET values == ImputableValues(last.received, s)
                IN  /\ last.sent.feature[s] \in values
                    /\ \A v \in ReceivedVectors :
                           s \in ToImpute(v) => ImputableValues(v, s) = values

\* A vector of patient 1 with only slot 3 missing has been processed (among
\* the vectors compared with it are those of patient 0 with all of slots
\* 0-4 missing).
C17_Witness ==
    \E i \in 1 .. Len(handled) :
        /\ handled[i].received.patient_id = 1
        /\ ToImpute(handled[i].received) = {3}
        /\ handled[i].sent.feature[3] # 0

\* C19: the vector parse_packet sends equals the received one in
\* patient_id, timestamp, result and feature5..feature9 and in every one
\* of feature0..feature4 received nonzero; exactly the slots of
\* feature0..feature4 received as 0 are replaced; the vector submitted is
\* the vector so built.
C19_OnlyMissingVitals ==
    \A i \in 1 .. Len(handled) :
        LET r == handled[i].received
            o == handled[i].sent
        IN  /\ o.type = r.type
            /\ o.patient_id = r.patient_id
            /\ o.timestamp = r.timestamp
            /\ o.result = r.result
            /\ \A s \in 5 .. 9 : o.feature[s] = r.feature[s]
            /\ \A s \in 0 .. 4 : r.feature[s] # 0 => o.feature[s] = r.feature[s]
            /\ \A s \in 0 .. 4 : r.feature[s] = 0 => o.feature[s] # 0
            /\ \E k \in 1 .. Len(submissions[r.patient_id]) :
                   LET sub == submissions[r.patient_id][k]
                   IN  /\ sub.feature = o.feature
                       /\ sub.timestamp = r.timestamp
                       /\ sub.patient_id = r.patient_id

\* A vector with slots 1 and 4 received as 0, the other vital signs
\* nonzero and feature5 = 0 has been processed.
C19_Witness ==
    \E i \in 1 .. Len(handled) :
        /\ {s \in Sensors : handled[i].received.feature[s] = 0} = {1, 4, 5, 9}
        /\ handled[i].sent.feature[1] # 0
        /\ handled[i].sent.feature[5] = 0

\* C20: every vector parse_packet sends has feature0..feature4 nonzero; a
\* vector received with these all nonzero - in particular one that
\* parse_packet sent before - is sent on unchanged, with no audit row.
C20_Idempotent ==
    \A j \in 1 .. Len(handled) :
        /\ \A s \in 0 .. 4 : handled[j].sent.feature[s] # 0
        /\ (\A s \in 0 .. 4 : handled[j].received.feature[s] # 0) =>
               /\ handled[j].sent = handled[j].received
               /\ RowsOf(j) = <<>>
        /\ \A i \in 1 .. (j - 1) :
               handled[j].received = handled[i].sent =>
                  /\ handled[j].sent = handled[i].sent
                  /\ handled[j].logTo = handled[j].logFrom

\* A vector with slots imputed was handed to parse_packet a second time.
C20_Witness ==
    /\ Len(handled) = 2
    /\ Len(RowsOf(1)) = 5
    /\ handled[2].received = handled[1].sent
    /\ Len(csvLog) = 5

\* What a step leaves alone and what it produces when it processes a
\* packet of patient a: the windows and submissions of the other patients
\* are as before, and every new submission, punted vector and audit row
\* carries a.
OnlyPatient(a) ==
    /\ \A b \in PatientIds \ {a} :
           /\ window'[b] = window[b]
           /\ wseq'[b] = wseq[b]
           /\ submissions'[b] = submissions[b]
    /\ Len(submissions'[a]) >= Len(submissions[a])
    /\ \A k \in (Len(submissions[a]) + 1) .. Len(submissions'[a]) :
           submissions'[a][k].patient_id = a
    /\ \A k \in (Len(pktIn) + 1) .. Len(pktIn') : pktIn'[k].patient_id = a
    /\ Len(csvLog') >= Len(csvLog)
    /\ \A k \in (Len(csvLog) + 1) .. Len(csvLog') : csvLog'[k].patient_id = a

\* C18: a step that processes a reading of patient a, a heartbeat for
\* patient a or a received vector of patient a leaves the window, the
\* window count and the submissions of every other patient unchanged, and
\* the submissions, punted vectors and audit rows it adds carry a.
C18_PatientsIndependent ==
    [][/\ \A a \in PatientIds : Reading(a) => OnlyPatient(a)
       /\ Len(hbSent') > Len(hbSent) =>
              OnlyPatient(hbSent'[Len(hbSent')].patient_id)
       /\ (pktIn # <<>> /\ pktIn' = Tail(pktIn) /\ Head(pktIn).type = "Planter") =>
              OnlyPatient(Head(pktIn).patient_id)
      ]_vars

\* The timed-out vector of one patient has been processed by parse_packet
\* and submitted while another patient's window holds six readings.
C18_Witness ==
    \E a \in PatientIds : \E b \in PatientIds \ {a} :
        /\ \E i \in 1 .. Len(handled) : handled[i].received.patient_id = a
        /\ \E k \in 1 .. Len(submissions[a]) :
               /\ submissions[a][k].via = "controller"
               /\ submissions[a][k].patient_id = a
        /\ Cardinality(Observed(window[b])) = 6
        /\ submissions[b] = <<>>

\* C21: the audit rows of a vector whose PacketOut failed stay in the log:
\* one row per imputed slot, with the vector's patient_id, the old value 0
\* and the value imputed; no submission exists for the vector's window, it
\* was processed that one time only, and every row of the log belongs to
\* exactly one processed vector.
C21_RowsKept ==
    /\ \A i \in 1 .. Len(handled) :
          handled[i].outcome = "send_failed" =>
             LET r == handled[i].received
             IN  /\ handled[i].logTo <= Len(csvLog)
                 /\ Len(RowsOf(i)) = Cardinality(ToImpute(r))
                 /\ RowSensors(i) = ToImpute(r)
                 /\ \A k \in 1 .. Len(RowsOf(i)) :
                        /\ RowsOf(i)[k].patient_id = r.patient_id
                        /\ RowsOf(i)[k].old_value = 0
                        /\ RowsOf(i)[k].new_value =
                              handled[i].sent.feature[RowsOf(i)[k].sensor_id]
                 /\ SubsOf(r.patient_id, r.about.win) = {}
                 /\ AttemptsOf(r.patient_id, r.about.win) = {i}
                 /\ PendingOf(r.patient_id, r.about.win) = {}
    /\ \A k \in 1 .. Len(csvLog) :
          Cardinality({i \in 1 .. Len(handled) :
                          handled[i].logFrom < k /\ k <= handled[i].logTo}) = 1

\* The PacketOut of a vector with five imputed slots failed: its five rows
\* are in the log and the patient has no submission.
C21_Witness ==
    \E i \in 1 .. Len(handled) :
        /\ handled[i].outcome = "send_failed"
        /\ Len(RowsOf(i)) = 5
        /\ Len(csvLog) >= 5
        /\ submissions[handled[i].received.patient_id] = <<>>

\* C22 as stated: the patient ids returned by admit_patient are pairwise
\* different, and no admission replaces an entry of active_patients,
\* whatever the interleaving of the main thread's initial admissions with
\* those of the patient-management thread.
C22_Original ==
    /\ \A i, j \in 1 .. Len(icu.admitted) :
          i # j => icu.admitted[i] # icu.admitted[j]
    /\ icu.overwritten = {}

\* C23 as stated: the number of active patients never exceeds
\* max_concurrent_patients.  (An admit_patient call that finds the ICU at
\* capacity returns at once: AdmitCheck changes no field of the tester.)
C23_Original ==
    Cardinality(icu.active_patients) <= max_concurrent_patients

\* C24 as stated: once the final cleanup has begun, its loop ends, with
\* active_patients empty.
C24_Original ==
    (icuThread["main"].pc = "cleanup") ~>
        (icuThread["main"].pc = "done" /\ icu.active_patients = {})

\* C25 as stated: every call get_next_patient_id_batch(n) returns n
\* consecutive patient ids, all of them in 1..max_patient_id.
C25_Original ==
    \A i \in 1 .. Len(concurrency.batches) :
        LET b == concurrency.batches[i]
        IN  /\ Cardinality(Elements(b.patient_ids)) = b.asked
            /\ Elements(b.patient_ids) \subseteq 1 .. max_patient_id

\* Positions of the events of one kind for patient p.
EventsOf(kind, p) ==
    {k \in 1 .. Len(monitor.events) :
        monitor.events[k].kind = kind /\ monitor.events[k].patient_id = p}

\* The alerts that are the first one for their patient since it was sent,
\* received while the monitoring was on.
FirstAlerts ==
    {k \in 1 .. Len(monitor.events) :
        LET e == monitor.events[k]
        IN  /\ e.kind = "alert"
            /\ \A j \in 1 .. (k - 1) : monitor.events[j].kind # "stop"
            /\ \E s \in EventsOf("send", e.patient_id) :
                   /\ s < k
                   /\ \A j \in EventsOf("alert", e.patient_id) : ~(s < j /\ j < k)}

\* C26: the tester has at most one record per scenario sent: the records
\* are, in order, the first alerts received for a patient that was sent;
\* such an alert removes the patient from the sent map, so every later
\* alert for the patient adds no record, and neither does an alert for a
\* patient that was not sent.
C26_OneRecordPerScenario ==
    /\ Len(monitor.data) = Cardinality(FirstAlerts)
    /\ \A i \in 1 .. Len(monitor.data) :
          /\ Cardinality({j \in 1 .. Len(monitor.data) :
                             monitor.data[j] = monitor.data[i]})
                <= Cardinality(EventsOf("send", monitor.data[i]))
          /\ \E k \in FirstAlerts : monitor.events[k].patient_id = monitor.data[i]
          /\ monitor.data[i] \notin monitor.sent
    /\ \A p \in monitor.sent : EventsOf("send", p) # {}

\* Three alerts were received for a patient that was sent once: one record.
C26_Witness ==
    \E p \in AlertIds(monitor.tester) :
        /\ Cardinality(EventsOf("send", p)) = 1
        /\ Cardinality(EventsOf("alert", p)) = 3
        /\ monitor.data = <<p>>

\* C27: every sensor thread of the windows before the current one has sent
\* its packet or skipped it, every packet was sent while its own window was
\* the current one, and two windows of the same patient start at least
\* window_total = 90 seconds apart.
C27_WindowsInOrder ==
    /\ \A w \in 1 .. (sim.idx - 1) : \A s \in Sensors :
          sim.threads[w][s].state \in {"sent", "skipped"}
    /\ \A pkt \in sim.sent : pkt.during = pkt.window
    /\ \A i, j \in 1 .. Len(sim.started) :
          (i < j /\ sim.started[i].patient_id = sim.started[j].patient_id) =>
             sim.started[j].time - sim.started[i].time >= window_total

\* The second window of a patient has started after a first window in which
\* sensors were skipped and the last packet went out 60 seconds after the
\* window's start.
C27_Witness ==
    /\ sim.idx = 2
    /\ sim.rows[1] = sim.rows[2]
    /\ sim.program = "sensors_simulator"
    /\ \E s \in Sensors : sim.threads[1][s].state = "skipped"
    /\ \E s \in Sensors : /\ sim.threads[1][s].state = "sent"
                           /\ sim.threads[1][s].wake = 60
    /\ \E pkt \in sim.sent : pkt.window = 2

\* The dual feature entries of a file (a dual action word and three
\* parameters after "=>"), and those of one lookup table.
DualEntries(lines) ==
    {i \in 1 .. Len(lines) :
        /\ Len(lines[i]) = 8
        /\ lines[i][3] \in DualWords
        /\ lines[i][5] = "=>"}
DualEntriesOf(lines, f) ==
    {i \in DualEntries(lines) : lines[i][2] = "SwitchIngress.lookup_feature" \o f}
EntriesOf(model, f, k) ==
    {i \in 1 .. Len(tables.entries) :
        /\ tables.entries[i].model = model
        /\ tables.entries[i].feature_num = f
        /\ tables.entries[i].match_key = k}
CodesOf(model, f, k) ==
    IF EntriesOf(model, f, k) = {} THEN {"0"}
    ELSE {tables.entries[i].code_val : i \in EntriesOf(model, f, k)}

\* C28: in the output of quick_fix_priorities the priority of a dual feature
\* entry is the number of dual entries between it and the last blank line
\* before it: the priorities start at 0 after every blank line and increase
\* by 1 per entry within a section.
C28_Original ==
    "corrected" \in tables.written =>
        LET out == tables.corrected
        IN  \A i \in DualEntries(out) :
               out[i][8] = str(Cardinality(
                   {j \in DualEntries(out) :
                       /\ j < i
                       /\ \A b \in j .. i : out[b] # <<>>}))

C30_Original ==
    "fixed" \in tables.written =>
        /\ Len(tables.fixed) = Len(tables.merged)
        /\ \A i \in 1 .. Len(tables.merged) :
             tables.fixed[i] =
                IF i \in DualEntries(tables.merged)
                THEN SubSeq(tables.merged[i], 1, 7)
                ELSE tables.merged[i]
        /\ fix_merged_tables(tables.fixed) = tables.fixed

====
